---- MODULE Spec2Model ----
(***************************************************************************)
(* A model of the LLM conversation helper of src/llm/llm.py: the message   *)
(* history, the context window selection, the token accounting and the     *)
(* send_message call with the outcomes of its remote request.              *)
(*                                                                         *)
(* Text is a finite sequence of symbols.  A symbol is a character of the   *)
(* alphabet, or a whole role word ("user", "assistant", "system"), which   *)
(* the encoding holds as one vocabulary entry.                             *)
(***************************************************************************)
EXTENDS Integers, Sequences, FiniteSets

VARIABLES
    full_message_history,  \* LLM.full_message_history (llm.py:8)
    pc,                    \* position of the running send_message call
    op,                    \* the method called last
    role,                  \* argument role of the send_message call
    prompt,                \* argument prompt of the send_message call
    messages,              \* argument of the num_tokens call
    context_window,        \* local context_window of send_message (llm.py:126)
    requests,              \* remote requests issued by the call, in order
    total_tokens,          \* response.usage.total_tokens of the answered request
    outcome,               \* how the call ended
    returned,              \* value the call returned
    entry_history          \* the history when the call was entered

(* op, role, prompt, messages, context_window, requests, total_tokens,      *)
(* outcome, returned and entry_history describe the call in progress, or   *)
(* the call that ended last; entering a call clears what the call before   *)
(* left in them.  The one state that outlives a call is the history.       *)
vars == <<full_message_history, pc, op, role, prompt, messages, context_window,
          requests, total_tokens, outcome, returned, entry_history>>

-----------------------------------------------------------------------------
(* Bounds of the model *)

MaxHistory == 5   \* send_message is called while the history is shorter
MaxMsgs == 2      \* longest message list handed to num_tokens
MaxLen == 2       \* longest content text handed to num_tokens

(* Constants of the program *)

tokens_per_message == 3
tokens_per_name == 1
reply_priming == 3
WindowSize == 4
max_tokens == 4096
TokenLimit == 4096

-----------------------------------------------------------------------------
(* Text and roles *)

Alphabet == {"a", "b"}

Texts(n) == UNION {[1..k -> Alphabet] : k \in 0..n}

User == <<"user">>
Assistant == <<"assistant">>
System == <<"system">>
Moderator == <<"moderator">>

ValidRoles == {User, Assistant, System}
Roles == ValidRoles \cup {Moderator}

None == <<"None">>

-----------------------------------------------------------------------------
(* The tokenizer: a byte-pair encoder.  A token is a sequence of symbols;  *)
(* the merge table lists the pairs of tokens that merge, by rank.          *)

Merges == << <<<<"a">>, <<"b">>>>,
             <<<<"a">>, <<"a">>>>,
             <<<<"b">>, <<"b">>>>,
             <<<<"b">>, <<"a">>>> >>

Rank(left, right) ==
    IF \E k \in 1..Len(Merges) : Merges[k] = <<left, right>>
    THEN CHOOSE k \in 1..Len(Merges) : Merges[k] = <<left, right>>
    ELSE 0

RECURSIVE BytePairMerge(_)
BytePairMerge(parts) ==
    LET pairs == {i \in 1..(Len(parts) - 1) : Rank(parts[i], parts[i + 1]) > 0}
    IN  IF pairs = {} THEN parts
        ELSE LET best == CHOOSE i \in pairs :
                            \A j \in pairs :
                                \/ Rank(parts[i], parts[i + 1]) < Rank(parts[j], parts[j + 1])
                                \/ /\ Rank(parts[i], parts[i + 1]) = Rank(parts[j], parts[j + 1])
                                   /\ i <= j
             IN  BytePairMerge(SubSeq(parts, 1, best - 1)
                               \o <<parts[best] \o parts[best + 1]>>
                               \o SubSeq(parts, best + 2, Len(parts)))

Encode(text) == BytePairMerge([i \in 1..Len(text) |-> <<text[i]>>])

-----------------------------------------------------------------------------
(* num_tokens *)

(* Variant: the per-name overhead is left out. *)
RECURSIVE ItemTokens_NoName(_, _)
ItemTokens_NoName(message, keys) ==
    IF keys = {} THEN 0
    ELSE LET key == CHOOSE k \in keys : TRUE
         IN  Len(Encode(message[key])) + ItemTokens_NoName(message, keys \ {key})

(* Variant: the characters of a value are counted, not its tokens. *)
RECURSIVE ItemTokens_Chars(_, _)
ItemTokens_Chars(message, keys) ==
    IF keys = {} THEN 0
    ELSE LET key == CHOOSE k \in keys : TRUE
         IN  Len(message[key])
             + (IF key = "name" THEN tokens_per_name ELSE 0)
             + ItemTokens_Chars(message, keys \ {key})

RECURSIVE ItemTokens(_, _)
ItemTokens(message, keys) ==
    IF keys = {} THEN 0
    ELSE LET key == CHOOSE k \in keys : TRUE
         IN  Len(Encode(message[key]))
             + (IF key = "name" THEN tokens_per_name ELSE 0)
             + ItemTokens(message, keys \ {key})

RECURSIVE MessageTokens(_)
MessageTokens(msgs) ==
    IF msgs = <<>> THEN 0
    ELSE tokens_per_message
         + ItemTokens(Head(msgs), DOMAIN Head(msgs))
         + MessageTokens(Tail(msgs))

NumTokens(msgs) == MessageTokens(msgs) + reply_priming

-----------------------------------------------------------------------------
(* manage_context_window *)

(* Variant: the slice [:4] in place of [-4:]. *)
Slice_Front(list, first) ==
    IF Len(list) <= first THEN list ELSE SubSeq(list, 1, first)

Slice(list, first) ==
    IF Len(list) <= first THEN list
    ELSE SubSeq(list, Len(list) - first + 1, Len(list))

ManageContextWindow(history) == Slice(history, WindowSize)


-----------------------------------------------------------------------------
(* gpt4_conversation: the check of the reported usage *)

(* Variant: the limit itself is refused. *)
ExceedsLimit_Inclusive(total) == total >= TokenLimit

ExceedsLimit(total) == total > TokenLimit

Request(window) ==
    [method |-> "gpt4_conversation", messages |-> window, max_tokens |-> max_tokens]

-----------------------------------------------------------------------------
(* Inputs of the session *)

Prompts == {<<"a", "b">>}

Replies == {<<"b">>, <<"a", "b">>}

Usages(window, reply) ==
    {NumTokens(window) + Len(Encode(reply)), TokenLimit, TokenLimit + 1}

-----------------------------------------------------------------------------
(* The state after LLM.__init__ *)

Init ==
    /\ full_message_history = <<>>
    /\ pc = "idle"
    /\ op = "__init__"
    /\ role = None
    /\ prompt = None
    /\ messages = <<>>
    /\ context_window = <<>>
    /\ requests = <<>>
    /\ total_tokens = 0
    /\ outcome = "none"
    /\ returned = None
    /\ entry_history = <<>>

(* Variant: an unknown role is coerced to 'user'. *)
SendMessage_Coerce(p, r) ==
    /\ pc = "idle"
    /\ Len(full_message_history) < MaxHistory
    /\ op' = "send_message"
    /\ role' = r
    /\ prompt' = p
    /\ entry_history' = full_message_history
    /\ messages' = <<>>
    /\ context_window' = <<>>
    /\ requests' = <<>>
    /\ total_tokens' = 0
    /\ returned' = None
    /\ full_message_history' =
           Append(full_message_history,
                  [role |-> IF r \in ValidRoles THEN r ELSE User, content |-> p])
    /\ pc' = "appended"
    /\ outcome' = "running"

(* send_message, up to the end of the role dispatch: the input is appended *)
(* under one of the three roles, any other role raises ValueError.         *)
SendMessage(p, r) ==
    /\ pc = "idle"
    /\ Len(full_message_history) < MaxHistory
    /\ op' = "send_message"
    /\ role' = r
    /\ prompt' = p
    /\ entry_history' = full_message_history
    /\ messages' = <<>>
    /\ context_window' = <<>>
    /\ requests' = <<>>
    /\ total_tokens' = 0
    /\ returned' = None
    /\ IF r = User
       THEN /\ full_message_history' =
                   Append(full_message_history, [role |-> User, content |-> p])
            /\ pc' = "appended"
            /\ outcome' = "running"
       ELSE IF r = Assistant
       THEN /\ full_message_history' =
                   Append(full_message_history, [role |-> Assistant, content |-> p])
            /\ pc' = "appended"
            /\ outcome' = "running"
       ELSE IF r = System
       THEN /\ full_message_history' =
                   Append(full_message_history, [role |-> System, content |-> p])
            /\ pc' = "appended"
            /\ outcome' = "running"
       ELSE /\ full_message_history' = full_message_history
            /\ pc' = "idle"
            /\ outcome' = "InvalidRole"

(* Variant: the window is built from the history as it was on entry. *)
SendRequest_StaleWindow ==
    /\ pc = "appended"
    /\ context_window' = ManageContextWindow(entry_history)
    /\ requests' = Append(requests, Request(context_window'))
    /\ pc' = "remote"
    /\ UNCHANGED <<full_message_history, op, role, prompt, messages, total_tokens,
                   outcome, returned, entry_history>>

(* send_message builds the context window and gpt4_conversation issues the *)
(* request that carries it.                                                *)
SendRequest ==
    /\ pc = "appended"
    /\ context_window' = ManageContextWindow(full_message_history)
    /\ requests' = Append(requests, Request(context_window'))
    /\ pc' = "remote"
    /\ UNCHANGED <<full_message_history, op, role, prompt, messages, total_tokens,
                   outcome, returned, entry_history>>

(* Variant: a failed request is issued again with a smaller window. *)
RemoteRaises_Retry ==
    /\ pc = "remote"
    /\ context_window' = Tail(context_window)
    /\ requests' = Append(requests, Request(context_window'))
    /\ UNCHANGED <<full_message_history, pc, op, role, prompt, messages,
                   total_tokens, outcome, returned, entry_history>>

(* The client raises (network, authentication, rate limit): the exception  *)
(* leaves gpt4_conversation and send_message.                              *)
RemoteRaises ==
    /\ pc = "remote"
    /\ pc' = "idle"
    /\ outcome' = "TransportError"
    /\ UNCHANGED <<full_message_history, op, role, prompt, messages, context_window,
                   requests, total_tokens, returned, entry_history>>

(* Variant: the reply is appended before the usage is checked. *)
RemoteResponds_AppendFirst(reply, total) ==
    /\ pc = "remote"
    /\ total_tokens' = total
    /\ pc' = "idle"
    /\ full_message_history' =
           Append(full_message_history, [role |-> Assistant, content |-> reply])
    /\ IF ExceedsLimit(total)
       THEN /\ outcome' = "ContextWindowExceeded"
            /\ UNCHANGED returned
       ELSE /\ returned' = reply
            /\ outcome' = "ok"
    /\ UNCHANGED <<op, role, prompt, messages, context_window, requests, entry_history>>

(* The client answers: gpt4_conversation checks the usage, send_message    *)
(* appends the reply and returns it.                                       *)
RemoteResponds(reply, total) ==
    /\ pc = "remote"
    /\ total_tokens' = total
    /\ pc' = "idle"
    /\ IF ExceedsLimit(total)
       THEN /\ outcome' = "ContextWindowExceeded"
            /\ UNCHANGED <<full_message_history, returned>>
       ELSE /\ full_message_history' =
                   Append(full_message_history, [role |-> Assistant, content |-> reply])
            /\ returned' = reply
            /\ outcome' = "ok"
    /\ UNCHANGED <<op, role, prompt, messages, context_window, requests, entry_history>>

(* Variant: the history itself is cut down to the window. *)
ManageContextWindowCall_InPlace ==
    /\ pc = "idle"
    /\ op' = "manage_context_window"
    /\ returned' = ManageContextWindow(full_message_history)
    /\ full_message_history' = ManageContextWindow(full_message_history)
    /\ outcome' = "ok"
    /\ entry_history' = full_message_history
    /\ role' = None
    /\ prompt' = None
    /\ messages' = <<>>
    /\ context_window' = <<>>
    /\ requests' = <<>>
    /\ total_tokens' = 0
    /\ UNCHANGED pc

(* A caller calls manage_context_window. *)
ManageContextWindowCall ==
    /\ pc = "idle"
    /\ op' = "manage_context_window"
    /\ returned' = ManageContextWindow(full_message_history)
    /\ outcome' = "ok"
    /\ entry_history' = full_message_history
    /\ role' = None
    /\ prompt' = None
    /\ messages' = <<>>
    /\ context_window' = <<>>
    /\ requests' = <<>>
    /\ total_tokens' = 0
    /\ UNCHANGED <<full_message_history, pc>>

(* A caller calls num_tokens on a list of messages. *)
NumTokensCall(msgs) ==
    /\ pc = "idle"
    /\ op' = "num_tokens"
    /\ messages' = msgs
    /\ returned' = NumTokens(msgs)
    /\ outcome' = "ok"
    /\ entry_history' = full_message_history
    /\ role' = None
    /\ prompt' = None
    /\ context_window' = <<>>
    /\ requests' = <<>>
    /\ total_tokens' = 0
    /\ UNCHANGED <<full_message_history, pc>>

Send == \E p \in Prompts, r \in Roles : SendMessage(p, r)

Respond ==
    \E reply \in Replies :
        \E total \in Usages(context_window, reply) : RemoteResponds(reply, total)

CountHistory == NumTokensCall(full_message_history)

Next ==
    \/ Send
    \/ SendRequest
    \/ RemoteRaises
    \/ Respond
    \/ ManageContextWindowCall
    \/ CountHistory

Spec == Init /\ [][Next]_vars

-----------------------------------------------------------------------------
(* num_tokens on its own: the argument is any bounded list of messages,    *)
(* with or without a name field.                                           *)

Names == {<<"b">>}

SampleMessages ==
    [role : {User}, content : Texts(MaxLen)]
    \cup [role : {Assistant, System}, content : Texts(1), name : Names]

MessageLists == UNION {[1..k -> SampleMessages] : k \in 0..MaxMsgs}

SampleHistory == <<[role |-> User, content |-> <<"a">>]>>

TokenInit ==
    /\ full_message_history = SampleHistory
    /\ pc = "idle"
    /\ op = "__init__"
    /\ role = None
    /\ prompt = None
    /\ messages \in MessageLists
    /\ context_window = <<>>
    /\ requests = <<>>
    /\ total_tokens = 0
    /\ outcome = "none"
    /\ returned = None
    /\ entry_history = full_message_history

CountMessages == op = "__init__" /\ NumTokensCall(messages)

TokenNext == CountMessages

TokenSpec == TokenInit /\ [][TokenNext]_vars

-----------------------------------------------------------------------------
(* Properties *)

InputMessage == [role |-> role, content |-> prompt]

Sending == op = "send_message"

Failed == outcome \in {"TransportError", "ContextWindowExceeded"}

Min(a, b) == IF a <= b THEN a ELSE b

IsPrefix(s, t) == Len(s) <= Len(t) /\ SubSeq(t, 1, Len(s)) = s

(* C1: for a valid role, exactly one message {role, content: prompt} is  *)
(* appended to the history before the remote request is issued, it stays *)
(* in place whatever the outcome of the request, and the window carried  *)
(* by the request ends with it.                                          *)
C1_AppendBeforeRequest ==
    (Sending /\ role \in ValidRoles) =>
        /\ IsPrefix(Append(entry_history, InputMessage), full_message_history)
        /\ pc = "appended" =>
               /\ requests = <<>>
               /\ full_message_history = Append(entry_history, InputMessage)
        /\ pc = "remote" =>
               /\ Len(requests) = 1
               /\ full_message_history = Append(entry_history, InputMessage)
        /\ \A i \in DOMAIN requests :
               /\ requests[i].messages # <<>>
               /\ requests[i].messages[Len(requests[i].messages)] = InputMessage

C1_Witness ==
    /\ Sending
    /\ role = System
    /\ outcome = "TransportError"
    /\ Len(requests) = 1
    /\ Len(entry_history) >= WindowSize
    /\ full_message_history = Append(entry_history, InputMessage)

(* C2: a role outside 'user', 'assistant', 'system' raises the invalid   *)
(* role error with the history as it was on entry and no request issued. *)
C2_InvalidRoleRejected ==
    (Sending /\ role \notin ValidRoles) =>
        /\ pc = "idle"
        /\ outcome = "InvalidRole"
        /\ full_message_history = entry_history
        /\ requests = <<>>
        /\ returned = None

C2_Witness ==
    /\ Sending
    /\ role = Moderator
    /\ outcome = "InvalidRole"
    /\ Len(full_message_history) >= 2
    /\ full_message_history = entry_history

(* C3: a successful send_message grows the history by the input message  *)
(* and then an assistant message holding the returned string; a call     *)
(* with a valid role that fails after the first append grows it by the   *)
(* input message alone.                                                  *)
C3_TwoAppendsOrOne ==
    (Sending /\ role \in ValidRoles /\ pc = "idle") =>
        /\ outcome \in {"ok", "TransportError", "ContextWindowExceeded"}
        /\ outcome = "ok" =>
               full_message_history =
                   entry_history \o <<InputMessage,
                                      [role |-> Assistant, content |-> returned]>>
        /\ Failed => full_message_history = entry_history \o <<InputMessage>>

C3_Witness ==
    /\ Sending
    /\ role = User
    /\ outcome = "ok"
    /\ returned = <<"b">>
    /\ Len(full_message_history) = Len(entry_history) + 2

(* C4: a reported total_tokens above 4096 ends send_message with the     *)
(* context-window-exceeded error, the reply is not appended and the      *)
(* input message stays last; a total of at most 4096 raises no error.    *)
C4_LimitCheck ==
    (Sending /\ pc = "idle" /\ total_tokens > 0) =>
        /\ total_tokens > 4096 =>
               /\ outcome = "ContextWindowExceeded"
               /\ returned = None
               /\ full_message_history = Append(entry_history, InputMessage)
               /\ full_message_history[Len(full_message_history)] = InputMessage
        /\ total_tokens <= 4096 => outcome = "ok"

C4_Witness ==
    /\ Sending
    /\ pc = "idle"
    /\ total_tokens = 4097
    /\ outcome = "ContextWindowExceeded"
    /\ full_message_history[Len(full_message_history)] = InputMessage

(* C5: manage_context_window returns the last min(N, 4) messages of a    *)
(* history of N messages, in order and unchanged.                        *)
C5_LastFour ==
    LET n == Len(full_message_history)
        LastOf(window) ==
            /\ Len(window) = Min(n, 4)
            /\ \A i \in 1..Len(window) :
                   window[i] = full_message_history[n - Len(window) + i]
    IN  /\ pc = "remote" => LastOf(context_window)
        /\ op = "manage_context_window" => LastOf(returned)

C5_Witness ==
    /\ pc = "remote"
    /\ Len(full_message_history) > 4
    /\ Len(context_window) = 4
    /\ context_window[4] = InputMessage

(* C6: the selected window satisfies num_tokens(window) + maximum reply  *)
(* size <= hard token limit.                                             *)
C6_WindowWithinBudget ==
    pc = "remote" => NumTokens(context_window) + max_tokens <= TokenLimit

(* C9: the history is append-only: the history before a step is a prefix *)
(* of the history after it, and manage_context_window and num_tokens     *)
(* leave it unchanged.                                                   *)
C9_AppendOnly ==
    [][/\ IsPrefix(full_message_history, full_message_history')
       /\ op' \in {"manage_context_window", "num_tokens"} =>
              full_message_history' = full_message_history]_vars

C9_Witness ==
    /\ op = "manage_context_window"
    /\ Len(full_message_history) > 4
    /\ Len(returned) = 4

(* C10: a send_message call issues at most one remote request; a failed  *)
(* request ends the call with its error, with no second request and no   *)
(* request of the summarization path.                                    *)
C10_OneRequest ==
    Sending =>
        /\ Len(requests) <= 1
        /\ \A i \in DOMAIN requests : requests[i].method = "gpt4_conversation"
        /\ Failed =>
               /\ pc = "idle"
               /\ requests =
                      <<Request(ManageContextWindow(Append(entry_history, InputMessage)))>>

C10_Witness ==
    /\ Sending
    /\ outcome = "ContextWindowExceeded"
    /\ pc = "idle"
    /\ Len(requests) = 1
    /\ Len(requests[1].messages) = 4

-----------------------------------------------------------------------------
(* Properties of num_tokens, under TokenSpec *)

Counted == op = "num_tokens"

TokenCount(text) == Len(Encode(text))

RECURSIVE SeqSum(_)
SeqSum(numbers) ==
    IF numbers = <<>> THEN 0 ELSE Head(numbers) + SeqSum(Tail(numbers))

PerMessage(m) ==
    3 + TokenCount(m.role) + TokenCount(m.content)
      + (IF "name" \in DOMAIN m THEN TokenCount(m.name) + 1 ELSE 0)

WithContent(msgs, i, text) == [msgs EXCEPT ![i].content = text]

(* C7: num_tokens returns 3 plus, for each message, 3 plus the token     *)
(* count of every field value plus 1 when the message carries a name; it *)
(* returns 3 for the empty list, and it changes neither its argument nor *)
(* the history.                                                          *)
C7_TokenFormula ==
    /\ [](Counted =>
            /\ returned = 3 + SeqSum([i \in DOMAIN messages |-> PerMessage(messages[i])])
            /\ messages = <<>> => returned = 3)
    /\ [][Counted' => /\ full_message_history' = full_message_history
                      /\ op = "__init__" => messages' = messages]_vars

C7_Witness ==
    /\ Counted
    /\ Len(messages) = 2
    /\ "name" \in DOMAIN messages[1]
    /\ messages[2].content = <<"a", "b">>
    /\ returned = 14

(* C8 as stated: num_tokens is strictly increasing in the length of a    *)
(* message's content.                                                    *)
C8_IncreasingInLength ==
    Counted =>
        \A i \in DOMAIN messages :
            \A text \in Texts(MaxLen) :
                Len(text) > Len(messages[i].content) =>
                    NumTokens(WithContent(messages, i, text)) > returned

(* C8 as amended: num_tokens follows the token count of the content, not *)
(* its length: two lists that differ in one message's content differ in  *)
(* num_tokens by the difference of the token counts of the two contents. *)
C8_IncreasingInTokens ==
    Counted =>
        \A i \in DOMAIN messages :
            \A text \in Texts(MaxLen) :
                NumTokens(WithContent(messages, i, text)) - returned
                    = TokenCount(text) - TokenCount(messages[i].content)

C8_Witness ==
    /\ Counted
    /\ Len(messages) = 1
    /\ messages[1].content = <<"a">>
    /\ NumTokens(WithContent(messages, 1, <<"a", "b">>)) = returned

=============================================================================
